---- MODULE Spec2Model ----
(***************************************************************************)
(* State-machine model of discord/poll.py (PollAnswer, Poll) and           *)
(* discord/membership_screening.py (MembershipScreeningForm and its        *)
(* partial variant).  Python objects live in two heaps (answers, polls)    *)
(* indexed by allocation order; an Optional value is a tuple of length 0   *)
(* (None / MISSING) or 1.                                                  *)
(***************************************************************************)
EXTENDS Integers, Sequences, FiniteSets, TLC

\* ------------------------------------------------------------------ bounds
\* objects on each heap, items in the answers argument of Poll(...), requests
MaxPolls == 2
MaxAnswers == 2
MaxItems == 2
MaxRequests == 1
\* voters the collaborator holds for an answer
MaxVoters == 160
\* how far vote events move an answer's vote count from 0, either way
MaxVotes == 3

\* the page size of PollAnswer.voters
PageSize == 100

\* --------------------------------------------------------------- optionals
None == <<>>
Some(x) == <<x>>

SetMin(S) == CHOOSE x \in S : \A y \in S : x <= y
MinOf(a, b) == IF a <= b THEN a ELSE b

VARIABLES
    answers,   \* heap of PollAnswer objects, by allocation order
    polls,     \* heap of Poll objects, by allocation order
    http,      \* requests issued to the transport collaborator, in order
    ret,       \* the last call: operation, arguments, exception raised, value
    server,    \* the collaborator behind get_answer_voters: its voters, its order
    vit,       \* the frame of the async generator PollAnswer.voters
    reqs,      \* its get_answer_voters requests, each with the page received
    yielded,   \* what it has yielded so far, in order
    form,      \* the version, description and fields of a MembershipScreeningForm
    partial    \* the slots of a PartialMembershipScreeningForm

heapVars == <<answers, polls, http, ret>>
voterVars == <<server, vit, reqs, yielded>>
formVars == <<form, partial>>
vars == <<heapVars, voterVars, formVars>>

\* ------------------------------------------------------- input domains
Texts == {"yes"}
StrEmoji == [kind |-> "str", name |-> "thumbsup"]
PartialEmojiObj == [kind |-> "partial", id |-> 7]
EmojiArgs == {Some(StrEmoji)}
\* timedelta values, in seconds; None stands for MISSING
Durations == {None, Some(-5400), Some(91800)}
Messages == {[id |-> 10, channel |-> 20, guild |-> "None"],
             [id |-> 11, channel |-> 21, guild |-> "Guild"]}
AnswerPayload1 == [answer_id |-> 1, poll_media |-> [text |-> Some("yes"), emoji |-> None]]
AnswerPayload2 == [answer_id |-> 2, poll_media |-> [text |-> None, emoji |-> Some([id |-> 7])]]
CountPayload1 == [id |-> 1, count |-> 2, me_voted |-> TRUE]
CountPayload2 == [id |-> 2, count |-> 0, me_voted |-> FALSE]
MkPayload(a, c, expiry, final) ==
    [answers |-> a, expiry |-> expiry,
     results |-> [is_finalized |-> final, answer_counts |-> c]]
\* payloads of the shape the wire contract gives: as many answer_counts as
\* answers, the counts listed in the order of the answers or not
PollPayloads ==
    {MkPayload(<<>>, <<>>, "2024-05-01T00:00:00+00:00", FALSE),
     MkPayload(<<AnswerPayload1>>, <<CountPayload1>>, "2024-06-01T12:30:00+00:00", TRUE),
     MkPayload(<<AnswerPayload1, AnswerPayload2>>, <<CountPayload1, CountPayload2>>,
               "2024-05-01T00:00:00+00:00", FALSE),
     MkPayload(<<AnswerPayload2, AnswerPayload1>>, <<CountPayload2, CountPayload1>>,
               "2024-06-01T12:30:00+00:00", TRUE),
     MkPayload(<<AnswerPayload1, AnswerPayload2>>, <<CountPayload2, CountPayload1>>,
               "2024-05-01T00:00:00+00:00", FALSE),
     MkPayload(<<AnswerPayload2, AnswerPayload1>>, <<CountPayload1, CountPayload2>>,
               "2024-06-01T12:30:00+00:00", TRUE)}
SeqsUpTo(S, n) == UNION {[1..k -> S] : k \in 0..n}

\* ------------------------------------------------------------ PollAnswer
\* PollAnswer.__init__
NewAnswer(text, emoji) ==
    [text |-> text, emoji |-> emoji, poll |-> None, id |-> None,
     vote_count |-> 0, me |-> FALSE]

\* state.get_reaction_emoji: a payload emoji becomes a PartialEmoji object
GetReactionEmoji(e) == [kind |-> "partial", id |-> e.id]

\* PollAnswer._from_data
AnswerFromData(d) ==
    NewAnswer(IF d.poll_media.text = None THEN "" ELSE d.poll_media.text[1],
              IF d.poll_media.emoji = None THEN None
              ELSE Some(GetReactionEmoji(d.poll_media.emoji[1])))

\* the keys of an answer payload itself (types/poll.py PollAnswer): 'emoji' is
\* a key of poll_media, never of the answer payload
AnswerDataKeys == {"answer_id", "poll_media"}

\* the emoji PollAnswer._inject_state leaves: data['emoji'] raises KeyError
InjectedEmoji(d) ==
    IF "emoji" \in AnswerDataKeys THEN Some(PartialEmojiObj) ELSE None

\* which entry of answer_counts the zip pairs with position i
CountFor(data, i) == data.results.answer_counts[i]

\* PollAnswer._inject_state(poll, data, count) applied to answer record a
AnswerInject(a, p, d, count) ==
    [a EXCEPT !.poll = Some(p),
              !.id = Some(d.answer_id),
              !.vote_count = count.count,
              !.me = count.me_voted,
              !.text = IF d.poll_media.text = None THEN "" ELSE d.poll_media.text[1],
              !.emoji = InjectedEmoji(d)]

\* -------------------------------------------------------------------- Poll
\* datetime.datetime.fromisoformat on the expiry strings of the payloads
FromIsoFormat(s) ==
    IF s = "2024-05-01T00:00:00+00:00"
    THEN [year |-> 2024, month |-> 5, day |-> 1, hour |-> 0, minute |-> 0]
    ELSE [year |-> 2024, month |-> 6, day |-> 1, hour |-> 12, minute |-> 30]

\* an item of the answers argument: 0 is a str, k > 0 the PollAnswer object k
IsAttachedItem(h, it) == it # 0 /\ h[it].poll # None

\* index of the item at which Poll.__init__ raises, 0 when it does not
FirstAttached(h, items) ==
    LET bad == {i \in 1..Len(items) : IsAttachedItem(h, items[i])}
    IN  IF bad = {} THEN 0 ELSE SetMin(bad)

\* number of answers appended to self.answers when Poll.__init__ raises at k
AppendedAfterCheck(k) == k
AppendedBeforeRaise(k) == k - 1

\* number of str items among the first n
RECURSIVE StrCount(_, _)
StrCount(items, n) ==
    IF n = 0 THEN 0
    ELSE StrCount(items, n - 1) + (IF items[n] = 0 THEN 1 ELSE 0)

\* the answer heap after the loop of Poll.__init__: one new object per str item
HeapWithStrs(h, items) ==
    h \o [j \in 1..StrCount(items, Len(items)) |-> NewAnswer("yes", None)]

\* self.answers after the loop of Poll.__init__
BuiltAnswers(h, items) ==
    [i \in 1..Len(items) |->
        IF items[i] = 0 THEN Len(h) + StrCount(items, i) ELSE items[i]]

\* the Poll object at the end of Poll.__init__
NewPoll(ans, duration) ==
    [answers |-> ans, duration |-> duration, message |-> None,
     expires |-> None, final |-> FALSE]

\* the zip of Poll._inject_state stops at the shortest of the three sequences
ZipLen(p, data) ==
    MinOf(Len(p.answers), MinOf(Len(data.answers), Len(data.results.answer_counts)))

\* the answer heap after the first n iterations of the loop of Poll._inject_state
RECURSIVE InjectAnswers(_, _, _, _, _)
InjectAnswers(h, pid, ans, data, n) ==
    IF n = 0 THEN h
    ELSE LET g == InjectAnswers(h, pid, ans, data, n - 1)
         IN  [g EXCEPT ![ans[n]] =
                 AnswerInject(g[ans[n]], pid, data.answers[n], CountFor(data, n))]

\* the Poll record after Poll._inject_state
PollInject(p, message, data) ==
    [p EXCEPT !.message = Some(message),
              !.expires = Some(FromIsoFormat(data.expiry)),
              !.final = data.results.is_finalized]

\* int(self.duration.total_seconds() // 3600)
RoundedHours(secs) == (secs + 1800) \div 3600
DurationHours(secs) == secs \div 3600

\* PollAnswer.to_dict
AnswerToDict(a) ==
    [text |-> a.text,
     emoji |-> IF a.emoji = None THEN None
               ELSE IF a.emoji[1].kind = "str"
                    THEN Some([id |-> None, name |-> Some(a.emoji[1].name)])
                    ELSE Some([id |-> Some(a.emoji[1].id), name |-> None])]

\* the poll after a successful expire_poll request: stop() assigns nothing
StopMarksFinal(p) == [p EXCEPT !.final = TRUE]
PollAfterStop(p) == p

\* --------------------------------------------------- PollAnswer.voters
\* the generator before voters() is called; called is the answer's vote count
\* when voters() was called, which the generator itself does not keep
NoIterator ==
    [pc |-> "none", answer |-> 0, limit |-> None, after |-> None,
     remaining |-> 0, cursor |-> None, exc |-> "None", called |-> 0]

\* the guard of line 217, negated: the answer has an id, a poll and a message
IgnoresAttachment(h, ps, a) == TRUE
IsAttached(h, ps, a) ==
    /\ h[a].id # None
    /\ h[a].poll # None
    /\ ps[h[a].poll[1]].message # None

\* retrieve = min(limit, 100)
RetrieveAll(limit) == limit
Retrieve(limit) == MinOf(limit, PageSize)

\* int(raw_user['id']): the wire carries a snowflake as a decimal string
ParseInt(str) == CHOOSE k \in 0..(MaxVoters + 1) : ToString(k) = str

\* the voters after the cursor that a request for r entries is answered with,
\* by ascending id; the collaborator's voters are 1..n
Window(n, r, after) ==
    LET a == IF after = None THEN 0 ELSE after[1]
        k == MinOf(r, IF n > a THEN n - a ELSE 0)
    IN  [i \in 1..k |-> [id |-> ToString(a + i)]]

Reversed(sq) == [i \in 1..Len(sq) |-> sq[Len(sq) + 1 - i]]

\* the page the collaborator returns: the window in its listing order; a
\* collaborator may also return one entry a page ("one"), ignore the cursor
\* ("same") or return an entry more than asked for ("more")
Page(srv, r, after) ==
    CASE srv.mode = "desc" -> Reversed(Window(srv.n, r, after))
      [] srv.mode = "one"  -> Window(srv.n, MinOf(r, 1), after)
      [] srv.mode = "same" -> Window(srv.n, r, None)
      [] srv.mode = "more" -> Window(srv.n, r + 1, after)
      [] OTHER             -> Window(srv.n, r, after)

\* limit -= len(data)
RemainingUnchanged(limit, data) == limit
RemainingAfter(limit, data) == limit - Len(data)

\* guild.get_member(member_id) finds the members the guild has cached
IsCachedMember(id) == id % 2 = 0

\* what one page yields: reversed(data), a Member where the message has a guild
\* that resolves the id, else a User
YieldsOf(data, message) ==
    [i \in 1..Len(data) |->
        LET id == ParseInt(data[Len(data) + 1 - i].id)
        IN  [id |-> id,
             kind |-> IF message.guild = "Guild" /\ IsCachedMember(id)
                      THEN "Member" ELSE "User"]]

\* answer.voters(limit=limit, after=after): builds the generator, runs nothing
VotersCall(a, limit, after) ==
    /\ vit.pc = "none"
    /\ vit' = [pc |-> "created", answer |-> a, limit |-> limit, after |-> after,
               remaining |-> 0, cursor |-> after, exc |-> "None",
               called |-> answers[a].vote_count]
    /\ UNCHANGED <<heapVars, server, reqs, yielded, formVars>>

\* limit = self._vote_count, in the body of the generator: it runs when the
\* first item is requested
DefaultAtCall(h, it) == it.called
DefaultLimit(h, it) == h[it.answer].vote_count

\* the first __anext__, lines 214-218
VotersStart ==
    /\ vit.pc = "created"
    /\ LET limit == IF vit.limit = None THEN DefaultLimit(answers, vit)
                    ELSE vit.limit[1]
       IN  vit' = IF IsAttached(answers, polls, vit.answer)
                  THEN [vit EXCEPT !.pc = "loop", !.remaining = limit]
                  ELSE [vit EXCEPT !.pc = "error", !.remaining = limit,
                                   !.exc = "RuntimeError"]
    /\ UNCHANGED <<heapVars, server, reqs, yielded, formVars>>

\* one turn of the while loop, lines 220-247: the request, the page, its yields
VotersPage(outcome) ==
    /\ vit.pc = "loop"
    /\ IF vit.remaining > 0
       THEN LET a       == answers[vit.answer]
                message == polls[a.poll[1]].message[1]
                r       == Retrieve(vit.remaining)
                data    == IF outcome = "None" THEN Page(server, r, vit.cursor) ELSE <<>>
                req     == [channel |-> message.channel, message |-> message.id,
                            answer |-> a.id[1], limit |-> r, after |-> vit.cursor,
                            got |-> Len(data),
                            last |-> IF data = <<>> THEN 0
                                     ELSE ParseInt(data[Len(data)].id)]
            IN  /\ reqs' = Append(reqs, req)
                /\ IF outcome # "None"
                   THEN vit' = [vit EXCEPT !.pc = "error", !.exc = outcome]
                        /\ yielded' = yielded
                   ELSE IF data # <<>>
                   THEN vit' = [vit EXCEPT !.remaining = RemainingAfter(vit.remaining, data),
                                           !.cursor = Some(req.last)]
                        /\ yielded' = yielded \o YieldsOf(data, message)
                   ELSE vit' = [vit EXCEPT !.pc = "done"]
                        /\ yielded' = yielded
       ELSE /\ outcome = "None"
            /\ vit' = [vit EXCEPT !.pc = "done"]
            /\ UNCHANGED <<reqs, yielded>>
    /\ UNCHANGED <<heapVars, server, formVars>>

\* ------------------------------------------------ membership screening
\* no form constructed
NoForm == [version |-> None, description |-> None, fields |-> <<>>]

\* PartialMembershipScreeningForm(guild=guild): its slots are guild and _state
GuildIds == {30, 31}
NewPartial(guild) == [guild |-> guild]

\* datetime.strptime(data['version'], '%Y-%m-%dT%H:%M:%S.%f+00:00')
Strptime(str) ==
    IF str = "2021-01-01T00:00:00.000000+00:00"
    THEN [year |-> 2021, month |-> 1, day |-> 1, microsecond |-> 0]
    ELSE [year |-> 2021, month |-> 2, day |-> 3, microsecond |-> 500000]

\* the value of a 'values' key or of the _values slot, under Some: a list of
\* text or the sentinel MembershipScreeningFormField.Empty
EmptyValue == [tag |-> "Empty", items |-> <<>>]
ListOf(items) == [tag |-> "list", items |-> items]

\* MembershipScreeningFormFieldType: the members and their underlying values
EnumMembers ==
    {[name |-> "server_rules", value |-> "TERMS"],
     [name |-> "text_input", value |-> "TEXT_INPUT"]}

\* try_enum: the member whose value is given, an unrecognized value as it is
TryEnum(value) ==
    IF \E m \in EnumMembers : m.value = value
    THEN [enum |-> (CHOOSE m \in EnumMembers : m.value = value).name, raw |-> ""]
    ELSE [enum |-> "", raw |-> value]

\* member.value
EnumValue(name) == (CHOOSE m \in EnumMembers : m.name = name).value

\* _membership_screening_field_factory: the server-rules member selects
\* ServerRules, anything else the generic field class
FieldFactory(field_type) ==
    LET value == TryEnum(field_type) IN
    IF value.enum = "server_rules"
    THEN [cls |-> "ServerRules", type |-> value]
    ELSE [cls |-> "MembershipScreeningFormField", type |-> value]

\* MembershipScreeningFormField.from_dict
FieldFromDict(d) ==
    [cls |-> FieldFactory(d.field_type).cls,
     type |-> FieldFactory(d.field_type).type,
     label |-> d.label, required |-> d.required, values |-> d.values]

\* MembershipScreeningFormField.to_dict: the slot _values under the key
\* 'values' when it is set, then field_type, label and required
DictWithValues(f) ==
    [field_type |-> IF f.type.enum # "" THEN EnumValue(f.type.enum) ELSE f.type.raw,
     label |-> f.label, required |-> f.required,
     values |-> IF f.values = None THEN Some(ListOf(<<>>)) ELSE f.values]
FieldToDict(f) ==
    [field_type |-> IF f.type.enum # "" THEN EnumValue(f.type.enum) ELSE f.type.raw,
     label |-> f.label, required |-> f.required, values |-> f.values]

\* the property values: getattr(self, '_values', Empty)
ValuesOf(f) == IF f.values = None THEN EmptyValue ELSE f.values[1]

\* the values setter on an object of class cls with items of classes items:
\* the exception it ends in.  The name `item` of the generator expression of
\* line 261 is not bound in the raise statement of line 262.
SetterException(cls, items) ==
    IF cls \notin {"list", "_Empty"} THEN "TypeError"
    ELSE IF cls = "list" /\ \E i \in 1..Len(items) : items[i].cls # "str"
    THEN "NameError"
    ELSE "None"

\* the slot _values after the setter returned
StoredValue(cls, items) ==
    IF cls = "_Empty" THEN Some(EmptyValue)
    ELSE Some(ListOf([i \in 1..Len(items) |-> items[i].text]))

\* MembershipScreeningForm._from_data
FormFromData(data) ==
    [version |-> Some(Strptime(data.version)),
     description |-> data.description,
     fields |-> [i \in 1..Len(data.form_fields) |-> FieldFromDict(data.form_fields[i])]]

\* the keyword arguments update() passes on: those given, and form_fields, the
\* str() of each field's dict, when fields is among them
SentFields(kwargs) ==
    [kwargs EXCEPT !.form_fields =
        IF kwargs.fields = None THEN None
        ELSE Some([i \in 1..Len(kwargs.fields[1]) |->
                      [str |-> FieldToDict(kwargs.fields[1][i])]])]

\* `if fields:` -- the dict passed on has at least one key
AlwaysSends(sent) == TRUE
HasChanges(sent) ==
    \E k \in {"enabled", "fields", "description", "form_fields", "reason"} :
        sent[k] # None

\* the form after update_member_verification raised: nothing was assigned
OptimisticDescription(f, kwargs) ==
    IF kwargs.description = None THEN f
    ELSE [f EXCEPT !.description = kwargs.description]
FormAfterFailure(f, kwargs) == f

\* the form after a successful request: self._from_data(data) assigns version,
\* description and fields from the response alone
MergedDescription(f, data) ==
    [FormFromData(data) EXCEPT !.description =
        IF data.description = None THEN f.description ELSE data.description]
FormAfterSuccess(f, data) == FormFromData(data)

\* MembershipScreeningForm(guild, data)
FormInit(data) == form = FormFromData(data)

\* the request both update methods await, with what it did
UpdateRequest(sent, outcome) ==
    [op |-> "update_member_verification", fields |-> sent, result |-> outcome]

\* the payload the request returned, None when it raised
Returned(outcome, data) == IF outcome = "None" THEN Some(data) ELSE None

\* MembershipScreeningForm.update(**kwargs); outcome and data are what the
\* update_member_verification request does and returns
FormUpdate(kwargs, outcome, data) ==
    LET sent == SentFields(kwargs) IN
    IF ~HasChanges(sent)
    THEN /\ ret' = [op |-> "update", exc |-> "None", val |-> None, args |-> kwargs]
         /\ UNCHANGED <<form, partial, http>>
    ELSE /\ Len(http) < MaxRequests
         /\ http' = Append(http, UpdateRequest(sent, outcome))
         /\ form' = IF outcome = "None" THEN FormAfterSuccess(form, data)
                    ELSE FormAfterFailure(form, kwargs)
         /\ ret' = [op |-> "update", exc |-> outcome, val |-> None, args |-> kwargs,
                    resp |-> Returned(outcome, data)]
         /\ UNCHANGED partial

\* PartialMembershipScreeningForm.update(**kwargs)
PartialUpdate(kwargs, outcome, data) ==
    LET sent == SentFields(kwargs) IN
    IF ~HasChanges(sent)
    THEN /\ ret' = [op |-> "partial_update", exc |-> "None", val |-> None,
                    args |-> kwargs]
         /\ UNCHANGED <<form, partial, http>>
    ELSE /\ Len(http) < MaxRequests
         /\ http' = Append(http, UpdateRequest(sent, outcome))
         /\ ret' = [op |-> "partial_update", exc |-> outcome,
                    val |-> IF outcome = "None" THEN Some(FormFromData(data)) ELSE None,
                    args |-> kwargs, resp |-> Returned(outcome, data)]
         /\ UNCHANGED <<form, partial>>

\* field.values = arg on the i-th field of the form
FieldSetValues(i, arg) ==
    LET exc == SetterException(arg.cls, arg.items) IN
    /\ form' = IF exc = "None"
               THEN [form EXCEPT !.fields[i].values = StoredValue(arg.cls, arg.items)]
               ELSE form
    /\ ret' = [op |-> "set_values", args |-> arg, exc |-> exc,
               val |-> IF exc = "TypeError" THEN arg.cls ELSE ""]
    /\ UNCHANGED <<partial, http>>

\* f.to_dict() on a field object
FieldToDictCall(f) ==
    /\ ret' = [op |-> "field_to_dict", args |-> f, exc |-> "None", val |-> FieldToDict(f)]
    /\ UNCHANGED <<form, partial, http>>

\* MembershipScreeningFormField.from_dict(d)
FieldFromDictCall(d) ==
    /\ ret' = [op |-> "from_dict", args |-> d, exc |-> "None", val |-> FieldFromDict(d)]
    /\ UNCHANGED <<form, partial, http>>

\* --------------------------------------------------------------- actions
\* PollAnswer(text=..., emoji=...)
AnswerInit(text, emoji) ==
    /\ Len(answers) < MaxAnswers
    /\ answers' = Append(answers, NewAnswer(text, emoji))
    /\ ret' = [op |-> "PollAnswer", args |-> <<>>, exc |-> "None", val |-> 0]
    /\ UNCHANGED <<polls, http>>

\* Poll(answers=items, duration=duration, ...)
PollInit(items, duration) ==
    LET k == FirstAttached(answers, items) IN
    IF k # 0
    THEN /\ ret' = [op |-> "Poll", args |-> items, exc |-> "ValueError",
                    val |-> AppendedBeforeRaise(k)]
         /\ UNCHANGED <<answers, polls, http>>
    ELSE /\ Len(polls) < MaxPolls
         /\ Len(answers) + StrCount(items, Len(items)) <= MaxAnswers
         /\ answers' = HeapWithStrs(answers, items)
         /\ polls' = Append(polls, NewPoll(BuiltAnswers(answers, items), duration))
         /\ ret' = [op |-> "Poll", args |-> items, exc |-> "None", val |-> Len(items)]
         /\ UNCHANGED http

\* Poll._inject_state(message, data) on the poll object pid
PollInjectState(pid, message, data) ==
    /\ polls' = [polls EXCEPT ![pid] = PollInject(polls[pid], message, data)]
    /\ answers' = InjectAnswers(answers, pid, polls[pid].answers, data,
                                ZipLen(polls[pid], data))
    /\ ret' = [op |-> "_inject_state", args |-> <<>>, exc |-> "None", val |-> 0]
    /\ UNCHANGED http

\* Poll._from_data(data, message=message)
PollFromData(data, message) ==
    LET fresh == [i \in 1..Len(data.answers) |-> AnswerFromData(data.answers[i])]
        h     == answers \o fresh
        ans   == [i \in 1..Len(data.answers) |-> Len(answers) + i]
        pid   == Len(polls) + 1
        p     == NewPoll(ans, None)
    IN  /\ Len(polls) < MaxPolls
        /\ Len(h) <= MaxAnswers
        /\ polls' = Append(polls, PollInject(p, message, data))
        /\ answers' = InjectAnswers(h, pid, ans, data, ZipLen(p, data))
        /\ ret' = [op |-> "_from_data", args |-> <<>>, exc |-> "None", val |-> 0]
        /\ UNCHANGED http

\* Poll.to_dict()
PollToDict(pid) ==
    LET p == polls[pid] IN
    /\ ret' = IF p.duration = None
              THEN [op |-> "to_dict", args |-> <<pid>>, exc |-> "ValueError", val |-> 0]
              ELSE [op |-> "to_dict", args |-> <<pid>>, exc |-> "None",
                    val |-> [answers |-> [i \in 1..Len(p.answers) |->
                                             AnswerToDict(answers[p.answers[i]])],
                             duration |-> DurationHours(p.duration[1])]]
    /\ UNCHANGED <<answers, polls, http>>

\* Poll.stop(); outcome is what the expire_poll request does
PollStop(pid, outcome) ==
    LET p == polls[pid] IN
    IF p.message = None
    THEN /\ ret' = [op |-> "stop", args |-> <<pid>>, exc |-> "RuntimeError", val |-> 0]
         /\ UNCHANGED <<answers, polls, http>>
    ELSE /\ Len(http) < MaxRequests
         /\ http' = Append(http, [op |-> "expire_poll",
                                  channel |-> p.message[1].channel,
                                  message |-> p.message[1].id,
                                  result |-> outcome])
         /\ polls' = IF outcome = "None"
                     THEN [polls EXCEPT ![pid] = PollAfterStop(p)]
                     ELSE polls
         /\ ret' = [op |-> "stop", args |-> <<pid>>, exc |-> outcome, val |-> 0]
         /\ UNCHANGED answers

\* PollAnswer._add_vote(me) on the answer object a
AddVote(a, me) ==
    /\ answers[a].vote_count < MaxVotes
    /\ answers' = [answers EXCEPT ![a].vote_count = @ + 1,
                                  ![a].me = IF me THEN TRUE ELSE @]
    /\ ret' = [op |-> "_add_vote", args |-> <<a>>, exc |-> "None", val |-> 0]
    /\ UNCHANGED <<polls, http>>

\* PollAnswer._remove_vote(me) on the answer object a
RemoveVote(a, me) ==
    /\ answers[a].vote_count > -MaxVotes
    /\ answers' = [answers EXCEPT ![a].vote_count = @ - 1,
                                  ![a].me = IF me THEN FALSE ELSE @]
    /\ ret' = [op |-> "_remove_vote", args |-> <<a>>, exc |-> "None", val |-> 0]
    /\ UNCHANGED <<polls, http>>

HttpOutcomes == {"None", "Forbidden", "HTTPException"}

PollInitItems == SeqsUpTo(0..Len(answers), MaxItems)

\* a message and the poll payload it carries
Attachments ==
    {x \in Messages \X PollPayloads : (x[1].id = 10) <=> ~x[2].results.is_finalized}

PollInitDayStep ==
    /\ UNCHANGED <<voterVars, formVars>>
    /\ \E items \in PollInitItems : PollInit(items, Some(91800))
PollInitStrStep ==
    /\ UNCHANGED <<voterVars, formVars>>
    /\ \E n \in 0..MaxItems, d \in Durations : PollInit([i \in 1..n |-> 0], d)
AnswerInitStep ==
    /\ UNCHANGED <<voterVars, formVars>>
    /\ \E t \in Texts, e \in EmojiArgs : AnswerInit(t, e)
PollInjectStateStep ==
    /\ UNCHANGED <<voterVars, formVars>>
    /\ \E pid \in 1..Len(polls), x \in Attachments : PollInjectState(pid, x[1], x[2])
PollFromDataStep ==
    /\ UNCHANGED <<voterVars, formVars>>
    /\ \E x \in Attachments : PollFromData(x[2], x[1])
PollToDictStep ==
    /\ UNCHANGED <<voterVars, formVars>>
    /\ \E pid \in 1..Len(polls) : PollToDict(pid)
PollStopStep ==
    /\ UNCHANGED <<voterVars, formVars>>
    /\ \E pid \in 1..Len(polls), o \in HttpOutcomes : PollStop(pid, o)
AddVoteStep ==
    /\ UNCHANGED <<voterVars, formVars>>
    /\ \E a \in 1..Len(answers), me \in BOOLEAN : AddVote(a, me)
RemoveVoteStep ==
    /\ UNCHANGED <<voterVars, formVars>>
    /\ \E a \in 1..Len(answers), me \in BOOLEAN : RemoveVote(a, me)
PollInitState ==
    /\ answers = <<>>
    /\ polls = <<>>
    /\ http = <<>>
    /\ ret = [op |-> "None", args |-> <<>>, exc |-> "None", val |-> 0]
    /\ server = [mode |-> "asc", n |-> 0]
    /\ vit = NoIterator
    /\ reqs = <<>>
    /\ yielded = <<>>
    /\ form = NoForm
    /\ partial = NewPartial(30)

PollNext ==
    \/ AnswerInitStep
    \/ PollInitDayStep
    \/ PollInjectStateStep
    \/ PollFromDataStep

SpecPoll == PollInitState /\ [][PollNext]_vars

BuildNext ==
    \/ PollInitDayStep
    \/ PollFromDataStep

SpecBuild == PollInitState /\ [][BuildNext]_vars

ToDictNext ==
    \/ PollInitStrStep
    \/ PollFromDataStep
    \/ PollToDictStep

SpecToDict == PollInitState /\ [][ToDictNext]_vars

StopNext ==
    \/ PollInitStrStep
    \/ PollFromDataStep
    \/ PollStopStep

SpecStop == PollInitState /\ [][StopNext]_vars

VotesNext ==
    \/ PollFromDataStep
    \/ AddVoteStep
    \/ RemoveVoteStep

SpecVotes == PollInitState /\ [][VotesNext]_vars

\* ----------------------------------------------- PollAnswer.voters runs
LimitArgs == {None, Some(0), Some(1), Some(3), Some(100), Some(101), Some(150)}
AfterArgs == {None, Some(2)}
VoterCounts == {0, 2, 120, MaxVoters}

\* the heaps voters() is iterated on: a PollAnswer by itself, the answer of
\* a builder poll, the answers of a poll made by Poll._from_data
VotersHeaps ==
    {<< <<NewAnswer("yes", None)>>, <<>> >>,
     << <<NewAnswer("yes", None)>>, <<NewPoll(<<1>>, Some(91800))>> >>}
    \cup
    {LET data  == x[2]
         fresh == [i \in 1..Len(data.answers) |-> AnswerFromData(data.answers[i])]
         ans   == [i \in 1..Len(data.answers) |-> i]
         p     == NewPoll(ans, None)
     IN  << InjectAnswers(fresh, 1, ans, data, ZipLen(p, data)),
            <<PollInject(p, x[1], data)>> >> :
       x \in {y \in Attachments : y[2].answers # <<>>}}

VotersInitState ==
    /\ \E h \in VotersHeaps : answers = h[1] /\ polls = h[2]
    /\ http = <<>>
    /\ ret = [op |-> "None", args |-> <<>>, exc |-> "None", val |-> 0]
    /\ server \in [mode : {"asc", "desc"}, n : VoterCounts]
    /\ vit = NoIterator
    /\ reqs = <<>>
    /\ yielded = <<>>
    /\ form = NoForm
    /\ partial = NewPartial(30)

VotersCallStep ==
    \E a \in 1..Len(answers), l \in LimitArgs, af \in AfterArgs : VotersCall(a, l, af)
VotersPageStep == \E o \in {"None", "HTTPException"} : VotersPage(o)

VotersNext ==
    \/ VotersCallStep
    \/ VotersStart
    \/ VotersPageStep

SpecVoters == VotersInitState /\ [][VotersNext]_vars

\* voters() on the one answer of a poll while vote events arrive
LazyInitState ==
    /\ \E h \in {g \in VotersHeaps : Len(g[1]) = 1} : answers = h[1] /\ polls = h[2]
    /\ http = <<>>
    /\ ret = [op |-> "None", args |-> <<>>, exc |-> "None", val |-> 0]
    /\ server \in [mode : {"asc"}, n : VoterCounts]
    /\ vit = NoIterator
    /\ reqs = <<>>
    /\ yielded = <<>>
    /\ form = NoForm
    /\ partial = NewPartial(30)

LazyNext ==
    \/ VotersCallStep
    \/ VotersStart
    \/ VotersPageStep
    \/ AddVoteStep
    \/ RemoveVoteStep

SpecVotersLazy == LazyInitState /\ [][LazyNext]_vars

\* the same runs against any collaborator
CollaboratorModes == {"asc", "desc", "one", "same", "more"}
AnyInitState ==
    /\ \E h \in VotersHeaps : answers = h[1] /\ polls = h[2]
    /\ http = <<>>
    /\ ret = [op |-> "None", args |-> <<>>, exc |-> "None", val |-> 0]
    /\ server \in [mode : CollaboratorModes, n : VoterCounts]
    /\ vit = NoIterator
    /\ reqs = <<>>
    /\ yielded = <<>>
    /\ form = NoForm
    /\ partial = NewPartial(30)

SpecVotersAny == AnyInitState /\ [][VotersNext]_vars

\* ------------------------------------------- membership screening runs
FieldPayloads ==
    {[field_type |-> "TERMS", label |-> "Read the rules", required |-> TRUE,
      values |-> Some(ListOf(<<"Be kind", "No spam">>))],
     [field_type |-> "TEXT_INPUT", label |-> "Why join?", required |-> FALSE,
      values |-> None]}
FormPayloads ==
    [version : {"2021-01-01T00:00:00.000000+00:00", "2021-02-03T00:00:00.500000+00:00"},
     description : {None, Some("Welcome")},
     form_fields : SeqsUpTo(FieldPayloads, 1)]

NoKwargs ==
    [enabled |-> None, fields |-> None, description |-> None, form_fields |-> None,
     reason |-> None]
\* the calls made: no argument, each recognized option, an unrecognized one
KwargsSets ==
    {NoKwargs,
     [NoKwargs EXCEPT !.enabled = Some(TRUE)],
     [NoKwargs EXCEPT !.description = Some("Hello")],
     [NoKwargs EXCEPT !.fields = Some(<<>>)],
     [NoKwargs EXCEPT !.fields =
        Some(<<FieldFromDict(CHOOSE f \in FieldPayloads : f.field_type = "TERMS")>>)],
     [NoKwargs EXCEPT !.reason = Some("audit")]}

FormInitState ==
    /\ answers = <<>>
    /\ polls = <<>>
    /\ http = <<>>
    /\ ret = [op |-> "None", exc |-> "None", val |-> None, args |-> NoKwargs]
    /\ server = [mode |-> "asc", n |-> 0]
    /\ vit = NoIterator
    /\ reqs = <<>>
    /\ yielded = <<>>
    /\ \E data \in FormPayloads : FormInit(data)
    /\ \E g \in GuildIds : partial = NewPartial(g)

\* what update_member_verification does: it raises, or returns a payload
Responses ==
    {<<o, CHOOSE d \in FormPayloads : TRUE>> : o \in {"Forbidden", "HTTPException"}}
    \cup {<<"None", d>> : d \in FormPayloads}

FormUpdateStep ==
    /\ UNCHANGED <<answers, polls, voterVars>>
    /\ \E k \in KwargsSets, r \in Responses : FormUpdate(k, r[1], r[2])
PartialUpdateStep ==
    /\ UNCHANGED <<answers, polls, voterVars>>
    /\ \E k \in KwargsSets, r \in Responses : PartialUpdate(k, r[1], r[2])

FormNext ==
    \/ FormUpdateStep
    \/ PartialUpdateStep

SpecForm == FormInitState /\ [][FormNext]_vars

\* --------------------------------------------------- form field runs
\* field payloads: the server-rules tag, another recognized tag, an
\* unrecognized one; values omitted, empty or not
FieldDicts ==
    [field_type : {"TERMS", "TEXT_INPUT", "CUSTOM"}, label : {"Read the rules"},
     required : BOOLEAN,
     values : {None, Some(ListOf(<<>>)), Some(ListOf(<<"Be kind", "No spam">>))}]

StrItem == [cls |-> "str", text |-> "Be kind"]
IntItem == [cls |-> "int", text |-> "3"]
\* what is assigned to values: lists of text, lists with an item that is not
\* text, the sentinel, objects that are not lists
SetterArgs ==
    {[cls |-> "list", items |-> <<>>],
     [cls |-> "list", items |-> <<StrItem>>],
     [cls |-> "list", items |-> <<StrItem, IntItem>>],
     [cls |-> "list", items |-> <<IntItem, StrItem>>],
     [cls |-> "_Empty", items |-> <<>>],
     [cls |-> "int", items |-> <<>>],
     [cls |-> "str", items |-> <<>>],
     [cls |-> "tuple", items |-> <<StrItem>>],
     [cls |-> "NoneType", items |-> <<>>]}

FieldSetValuesStep ==
    /\ UNCHANGED <<answers, polls, voterVars>>
    /\ \E i \in 1..Len(form.fields), arg \in SetterArgs : FieldSetValues(i, arg)
\* to_dict of a field of the form, or of the object from_dict just returned
FieldToDictStep ==
    /\ UNCHANGED <<answers, polls, voterVars>>
    /\ \/ \E i \in 1..Len(form.fields) : FieldToDictCall(form.fields[i])
       \/ ret.op = "from_dict" /\ FieldToDictCall(ret.val)
\* from_dict of a payload, or of the dict to_dict just returned
FieldFromDictStep ==
    /\ UNCHANGED <<answers, polls, voterVars>>
    /\ \/ \E d \in FieldDicts : FieldFromDictCall(d)
       \/ ret.op = "field_to_dict" /\ FieldFromDictCall(ret.val)

FieldNext ==
    \/ FieldSetValuesStep
    \/ FieldToDictStep
    \/ FieldFromDictStep

SpecField == FormInitState /\ [][FieldNext]_vars

\* ----------------------------------------- claims on membership screening
\* the field objects from_dict makes of the field payloads
ParsedFields == {FieldFromDict(d) : d \in FieldDicts}

C13_SetterTypeError ==
    [][(/\ ret'.op = "set_values"
        /\ \/ ret'.args.cls \notin {"list", "_Empty"}
           \/ /\ ret'.args.cls = "list"
              /\ \E i \in 1..Len(ret'.args.items) : ret'.args.items[i].cls # "str")
       => ret'.exc = "TypeError" /\ form' = form]_vars

NoRecognizedKey(k) == k.enabled = None /\ k.fields = None /\ k.description = None

\* C9 as stated: update() with none of enabled, fields, description among its
\* keys issues no request, changes nothing and returns None without error.
C9_NoRecognizedKeyNoCall ==
    [][(ret'.op \in {"update", "partial_update"} /\ NoRecognizedKey(ret'.args))
       => /\ http' = http /\ form' = form
          /\ ret'.exc = "None" /\ ret'.val = None]_vars

\* C9 amended: update() with no keyword argument at all issues no request,
\* changes nothing and returns None without error, on both forms.
C9_NoArgumentNoCall ==
    [][(ret'.op \in {"update", "partial_update"} /\ ret'.args = NoKwargs)
       => /\ http' = http /\ form' = form
          /\ ret'.exc = "None" /\ ret'.val = None]_vars

C9_Witness ==
    /\ ret.op = "partial_update" /\ ret.args = NoKwargs
    /\ ret.exc = "None" /\ ret.val = None
    /\ http = <<>>

\* C10: when update_member_verification fails, MembershipScreeningForm.update
\* raises that failure after exactly one request and leaves version,
\* description and fields as they were; the form changes only in a step whose
\* request succeeded.
C10_FailureLeavesForm ==
    [][ /\ (ret'.op = "update" /\ ret'.args # NoKwargs) =>
             /\ Len(http') = Len(http) + 1
             /\ \A i \in 1..Len(http) : http'[i] = http[i]
             /\ ret'.exc = http'[Len(http')].result
             /\ ret'.exc # "None" => form' = form
        /\ form' # form =>
             /\ ret'.op = "update" /\ ret'.exc = "None"
             /\ Len(http') = Len(http) + 1
             /\ http'[Len(http')].result = "None" ]_vars

C10_Witness ==
    /\ ret.op = "update" /\ ret.exc = "Forbidden"
    /\ ret.args.description = Some("Hello")
    /\ Len(http) = 1
    /\ form.description # Some("Hello")

\* C11: after a successful update with a non-empty change-set the full form's
\* version, description and fields are those parsed from the response payload
\* alone (description None when the response omits it); the same call on the
\* partial form returns a full form built from the response and changes
\* neither the partial form nor any existing full form.
C11_ReplacedFromResponse ==
    [][(ret'.op \in {"update", "partial_update"} /\ ret'.args # NoKwargs
        /\ ret'.exc = "None")
       => LET resp == ret'.resp[1]
              new  == IF ret'.op = "update" THEN form' ELSE ret'.val[1]
          IN  /\ Len(http') = Len(http) + 1
              /\ new.version = Some(Strptime(resp.version))
              /\ new.description = resp.description
              /\ Len(new.fields) = Len(resp.form_fields)
              /\ \A i \in 1..Len(new.fields) :
                    /\ new.fields[i].label = resp.form_fields[i].label
                    /\ new.fields[i].required = resp.form_fields[i].required
                    /\ new.fields[i].values = resp.form_fields[i].values
                    /\ new.fields[i].cls = FieldFactory(resp.form_fields[i].field_type).cls
              /\ partial' = partial
              /\ ret'.op = "partial_update" => form' = form]_vars

C11_Witness ==
    /\ ret.op = "update" /\ ret.exc = "None" /\ ret.args.enabled = Some(TRUE)
    /\ Len(http) = 1
    /\ ret.resp # None /\ ret.resp[1].description = None
    /\ form.description = None /\ form.fields = <<>>

\* -------------------------------------------- claims on PollAnswer.voters
\* entries received in the requests before the i-th
RECURSIVE GotBefore(_)
GotBefore(i) == IF i <= 1 THEN 0 ELSE GotBefore(i - 1) + reqs[i - 1].got

AllPagesFull == \A i \in 1..Len(reqs) : reqs[i].got = reqs[i].limit

\* C1: with a limit given, every request asks for min(remaining limit, 100)
\* entries, the first with the caller's cursor and each later one with the id
\* of the last item of the page before; voters(limit=150) against full pages
\* ends after exactly two requests, for 100 and then for 50 entries.
C1_PageRequests ==
    /\ vit.limit # None =>
          \A i \in 1..Len(reqs) :
             /\ reqs[i].limit = MinOf(vit.limit[1] - GotBefore(i), 100)
             /\ reqs[i].after = IF i = 1 THEN vit.after ELSE Some(reqs[i - 1].last)
    /\ (vit.pc = "done" /\ vit.limit = Some(150) /\ AllPagesFull) =>
          /\ Len(reqs) = 2
          /\ reqs[1].limit = 100
          /\ reqs[2].limit = 50

C1_Witness ==
    /\ vit.pc = "done" /\ vit.limit = Some(150)
    /\ Len(reqs) = 2 /\ AllPagesFull
    /\ Len(yielded) = 150

\* the limit the loop starts with, and the entries received so far (each is
\* yielded with its page)
StartLimit ==
    IF vit.limit # None THEN vit.limit[1] ELSE answers[vit.answer].vote_count
Received == Len(yielded)

\* C16: whatever the collaborator returns, voters() on an attached answer
\* issues a request only while the entries received so far are fewer than the
\* limit and no page was empty: at most `limit` requests, none when the limit
\* is 0; every page that does not end the iteration lowers what remains, the
\* iteration is over on the first empty page or once the limit is reached,
\* and an iteration that is over issues no further request.
C16_IterationEnds ==
    [][ /\ Len(reqs') > Len(reqs) =>
             /\ Len(reqs') = Len(reqs) + 1
             /\ Received < StartLimit
             /\ reqs # <<>> => reqs[Len(reqs)].got > 0
             /\ Len(reqs') <= StartLimit
             /\ vit'.pc = "loop" => vit'.remaining < vit.remaining
             /\ reqs'[Len(reqs')].got = 0 => vit'.pc \in {"done", "error"}
        /\ (vit.pc = "loop" /\ Received >= StartLimit) =>
             vit'.pc = "done" /\ reqs' = reqs
        /\ vit.pc \in {"done", "error"} => reqs' = reqs ]_vars

C16_Witness ==
    /\ vit.pc = "done" /\ server.mode = "one" /\ vit.limit = Some(3)
    /\ Len(reqs) = 3 /\ Len(yielded) = 3

\* C17 as stated: without a limit, the limit the loop starts with is the
\* answer's vote count at the time voters() was called, whatever vote events
\* arrive between the call and the request for the first item.
C17_LimitAtCall ==
    [][(vit.pc = "created" /\ vit.limit = None /\ vit'.pc = "loop")
       => vit'.remaining = vit.called]_vars

\* C17 amended: without a limit, the limit the loop starts with is the
\* answer's vote count when the first item is requested, so a vote event
\* between the call and that request changes it; vote events after that
\* request change neither what remains nor what the next request asks for.
C17_LimitAtFirstRequest ==
    [][ /\ (vit.pc = "created" /\ vit.limit = None /\ vit'.pc = "loop")
           => vit'.remaining = answers[vit.answer].vote_count
        /\ answers' # answers => (vit' = vit /\ reqs' = reqs)
        /\ Len(reqs') > Len(reqs)
           => reqs'[Len(reqs')].limit = MinOf(vit.remaining, PageSize) ]_vars

C17_Witness ==
    /\ vit.limit = None /\ vit.called = 2
    /\ ret.op = "_remove_vote"
    /\ reqs # <<>> /\ reqs[1].limit = 3
    /\ answers[vit.answer].vote_count = 1

\* C2: against a collaborator that answers each request with the next voters
\* after the cursor, each page listed by descending id, the voters of one
\* complete iteration are yielded in strictly ascending id order (so none twice).
C2_AscendingNoRepeat ==
    (vit.pc = "done" /\ server.mode = "desc") =>
        \A i \in 1..(Len(yielded) - 1) : yielded[i].id < yielded[i + 1].id

\* C3: iterating voters() on an answer without id, without poll or whose poll
\* has no message ends in RuntimeError with no request issued and nothing
\* yielded, whatever limit and after are.
C3_UnattachedRaises ==
    ( /\ vit.pc \notin {"none", "created"}
      /\ \/ answers[vit.answer].id = None
         \/ answers[vit.answer].poll = None
         \/ polls[answers[vit.answer].poll[1]].message = None )
    => /\ vit.pc = "error" /\ vit.exc = "RuntimeError"
       /\ reqs = <<>> /\ yielded = <<>>

C3_Witness ==
    /\ vit.pc = "error" /\ vit.exc = "RuntimeError"
    /\ vit.limit = Some(150) /\ vit.after = Some(2)
    /\ polls # <<>> /\ polls[1].message = None
    /\ reqs = <<>>

\* ------------------------------------------------------- claims on Poll
\* the polls whose answers list holds the PollAnswer object a
Holders(a) ==
    {p \in 1..Len(polls) : \E i \in 1..Len(polls[p].answers) : polls[p].answers[i] = a}

C5_RaisesBeforeAnyOther ==
    (ret.op = "Poll" /\ ret.exc = "ValueError") => ret.val = 0

\* C5 amended: Poll.__init__ raises ValueError exactly when some item is a
\* PollAnswer with a back-reference, it raises at the first such item k with the
\* k - 1 items before it already appended, and no existing object is changed.
C5_RaisesAtFirstAttached ==
    [][ret'.op = "Poll" =>
         LET items == ret'.args IN
         IF \E i \in 1..Len(items) : items[i] # 0 /\ answers[items[i]].poll # None
         THEN /\ ret'.exc = "ValueError"
              /\ \E k \in 1..Len(items) :
                    /\ items[k] # 0 /\ answers[items[k]].poll # None
                    /\ \A j \in 1..(k - 1) :
                          items[j] = 0 \/ answers[items[j]].poll = None
                    /\ ret'.val = k - 1
              /\ answers' = answers /\ polls' = polls
         ELSE ret'.exc = "None" /\ Len(polls') = Len(polls) + 1]_vars

C5_Witness ==
    /\ ret.op = "Poll" /\ ret.exc = "ValueError" /\ ret.val = 1
    /\ \E a \in 1..Len(answers) : answers[a].poll # None

\* C6: no PollAnswer object is ever held by two polls.
C6_NoSharedAnswer ==
    \A a \in 1..Len(answers) : Cardinality(Holders(a)) <= 1

\* C7: every poll made by _from_data has no duration; Poll.to_dict raises
\* ValueError when the duration is absent and otherwise gives the whole hours h
\* of the duration s, 3600 h <= s < 3600 (h + 1), 25 for 25 h 30 min.
C7_ToDictDuration ==
    [][ /\ ret'.op = "_from_data" => polls'[Len(polls')].duration = None
        /\ ret'.op = "to_dict" =>
             LET p == polls[ret'.args[1]] IN
             IF p.duration = None
             THEN ret'.exc = "ValueError"
             ELSE LET s == p.duration[1]
                      h == ret'.val.duration
                  IN  /\ ret'.exc = "None"
                      /\ 3600 * h <= s /\ s < 3600 * (h + 1)
                      /\ (s = 91800 => h = 25) ]_vars

C7_Witness ==
    /\ ret.op = "to_dict" /\ ret.exc = "None"
    /\ ret.val.duration = 25
    /\ \E p \in 1..Len(polls) : polls[p].duration = Some(91800)

\* C8: Poll.stop on an unattached poll raises RuntimeError and issues no
\* request; on an attached poll it issues one expire_poll request with the
\* message's channel and message ids; either way, and whatever the request
\* does, no field of any poll or answer changes.
C8_StopFrame ==
    [][ret'.op = "stop" =>
         LET p == polls[ret'.args[1]] IN
         /\ polls' = polls /\ answers' = answers
         /\ IF p.message = None
            THEN ret'.exc = "RuntimeError" /\ http' = http
            ELSE /\ Len(http') = Len(http) + 1
                 /\ \A i \in 1..Len(http) : http'[i] = http[i]
                 /\ http'[Len(http')].op = "expire_poll"
                 /\ http'[Len(http')].channel = p.message[1].channel
                 /\ http'[Len(http')].message = p.message[1].id
                 /\ ret'.exc = http'[Len(http')].result]_vars

C8_Witness ==
    /\ ret.op = "stop" /\ ret.exc = "None" /\ Len(http) = 1
    /\ \E p \in 1..Len(polls) : polls[p].message # None /\ ~polls[p].final

\* ------------------------------------------------ claims on vote events
\* C14: the vote_count of every PollAnswer is >= 0 in every reachable state,
\* whatever _inject_state, _add_vote and _remove_vote calls were made.
C14_VoteCountNonNegative ==
    \A a \in 1..Len(answers) : answers[a].vote_count >= 0

\* -------------------------------------------- claims on the poll lifecycle
\* C15: no poll ever has a duration and an expires_at together; a poll without
\* message has no expires_at and is not final, a poll with a message has an
\* expires_at and no duration; a poll that has a message keeps that message.
C15_DurationXorExpires ==
    [][\A p \in 1..Len(polls') :
          LET q == polls'[p] IN
          /\ ~(q.duration # None /\ q.expires # None)
          /\ q.message = None => (q.expires = None /\ ~q.final)
          /\ q.message # None => (q.expires # None /\ q.duration = None)
          /\ (p <= Len(polls) /\ polls[p].message # None)
                => q.message = polls[p].message]_vars

\* the answer payload that carries the answer id given
AnswerPayloadOf(id) == CHOOSE d \in {AnswerPayload1, AnswerPayload2} : d.answer_id = id

====
